---- MODULE Spec2Model ----
(***************************************************************************)
(* LiftLog: the spreadsheet importers (importData.replace_data_from_excel  *)
(* and utils.import_excel_workouts) and the replace-all sequence they run  *)
(* against the hosted store (tables "workouts" and "exercises").           *)
(* SpecSession follows one session of the page (main.py): save, edit,      *)
(* delete, replicate and import, with st.cache_data between the page and   *)
(* the store.                                                              *)
(*                                                                         *)
(* Numbers with a fractional part (reps as read, weight) are kept in       *)
(* tenths: 127 is 12.7.  A calendar date is [y, m, d]; None is Python's    *)
(* None / pandas' NaT.                                                     *)
(***************************************************************************)
EXTENDS Integers, Sequences, FiniteSets, TLC

VARIABLES
    workouts,          \* rows of the store's "workouts" table, in insertion order
    exercises,         \* rows of the store's "exercises" table, in insertion order
    nextId,            \* the next identifier the store gives a workout row
    nextExerciseId,    \* the next identifier the store gives an exercise row
    upload,            \* per caller: the spreadsheet handed to the importer
    importer,          \* per caller: "ui" (utils.py) or "script" (importData.py)
    pc,                \* per caller: where the import stands
    df,                \* per caller: the cleaned frame (df / new_workouts)
    i,                 \* per caller: index of the insert loop
    unique_exercises,  \* per caller: sorted(df[...].unique())
    result,            \* per caller: what the import handed back to its caller
    log,               \* per caller: the store requests issued, with their outcome
    scan_rows,         \* the WorkoutDate column being scanned (importData.py step 3)
    idx,               \* position of the scan
    last_valid_date,   \* importData.py: last_valid_date
    cleaned_dates,     \* importData.py: cleaned_dates
    cache,             \* st.cache_data: entries of get_exercise_list and load_data
    edit_workout,      \* st.session_state.edit_workout (NoEdit when the key is absent)
    request,           \* the operation the session is running, with the store it started from
    all_ok,            \* no operation of the session has failed so far
    started            \* operations the session has begun

vars == <<workouts, exercises, nextId, nextExerciseId, upload, importer, pc, df, i,
          unique_exercises, result, log,
          scan_rows, idx, last_valid_date, cleaned_dates,
          cache, edit_workout, request, all_ok, started>>

storeVars == <<workouts, exercises, nextId, nextExerciseId>>
importVars == <<upload, importer, pc, df, i, unique_exercises, result, log>>
scanVars == <<scan_rows, idx, last_valid_date, cleaned_dates>>
pageVars == <<edit_workout, request, all_ok, started>>
sessionVars == <<cache, edit_workout, request, all_ok, started>>

---------------------------------------------------------------------------
(* Bounds of the model *)

\* longest spreadsheet (rows) the importers are run on
MaxRows == 2
\* longest WorkoutDate column the forward-fill scan is run on
MaxCells == 4
\* longest spreadsheet each of two racing imports is run on
MaxRaceRows == 1

---------------------------------------------------------------------------
(* Cells of the spreadsheet as pandas reads them *)

None == [y |-> 0, m |-> 0, d |-> 0]

\* a blank cell (float NaN)
NaNCell == [k |-> "nan", t |-> <<>>]
\* free text such as "Chest + Back"
TextCell == [k |-> "text", t |-> <<>>]
\* a text cell "a/b/c", e.g. "01/06/2024"
Slashed(a, b, c) == [k |-> "slashed", t |-> <<a, b, c>>]
\* a date-typed cell, read as a datetime; str() gives "y-m-d 00:00:00"
Timestamp(y, m, d) == [k |-> "ts", t |-> <<y, m, d>>]

\* a blank ExerciseName / WorkoutID cell
NoName == "<NaN>"

\* numeric cells: blank, text that is no number, or a number in tenths
NaNNum == [k |-> "nan", v |-> 0]
TextNum == [k |-> "text", v |-> 0]
Num(v) == [k |-> "num", v |-> v]

IsLeap(y) == (y % 4 = 0 /\ y % 100 # 0) \/ y % 400 = 0

DaysInMonth(y, m) ==
    IF m = 2 THEN (IF IsLeap(y) THEN 29 ELSE 28)
    ELSE IF m \in {4, 6, 9, 11} THEN 30 ELSE 31

\* datetime(year, month, day) raises ValueError outside these ranges
ValidDate(r) ==
    /\ r.y \in 1..9999
    /\ r.m \in 1..12
    /\ r.d \in 1..DaysInMonth(r.y, r.m)

\* dateutil's _ymd.resolve_ymd for three numeric members, none a month name.
\* ystridx: the position of the member labelled the year (more than two digits).
ystridx(t) ==
    IF t[1] > 99 THEN 1 ELSE IF t[2] > 99 THEN 2 ELSE IF t[3] > 99 THEN 3 ELSE 0

resolve_ymd(t, dayfirst) ==
    IF t[1] > 31 \/ ystridx(t) = 1
    THEN IF dayfirst /\ t[3] <= 12
         THEN [y |-> t[1], m |-> t[3], d |-> t[2]]
         ELSE [y |-> t[1], m |-> t[2], d |-> t[3]]
    ELSE IF t[1] > 12 \/ (dayfirst /\ t[2] <= 12)
         THEN [y |-> t[3], m |-> t[2], d |-> t[1]]
         ELSE [y |-> t[3], m |-> t[1], d |-> t[2]]

\* parse(str(raw_date), dayfirst=True).date(), None standing for the
\* ParserError / ValueError / TypeError the caller's except clause swallows
ParseDayFirst(cell) ==
    IF cell.k \in {"nan", "text"} THEN None
    ELSE LET r == resolve_ymd(cell.t, TRUE)
         IN  IF ValidDate(r) THEN r ELSE None

ToDatetimeDefaults(cell) ==
    IF cell.k = "ts" THEN [y |-> cell.t[1], m |-> cell.t[2], d |-> cell.t[3]]
    ELSE IF cell.k = "nan" THEN None ELSE [y |-> 1970, m |-> 1, d |-> 1]

\* pd.to_datetime(cell, format="%Y-%m-%d", errors="coerce").date(): a datetime
\* passes through, any string not of that form is coerced to NaT
ToDatetimeIso(cell) ==
    IF cell.k = "ts" THEN [y |-> cell.t[1], m |-> cell.t[2], d |-> cell.t[3]]
    ELSE None

\* int(x): truncation toward zero of a number kept in tenths
IntOf(v) == IF v >= 0 THEN v \div 10 ELSE -((-v) \div 10)

---------------------------------------------------------------------------
(* The cleaning pipelines *)

Max(S) == CHOOSE x \in S : \A z \in S : z <= x
Min2(a, b) == IF a <= b THEN a ELSE b

Column(rows, c) == [n \in 1..Len(rows) |-> rows[n][c]]

\* Series.ffill(): each null takes the last non-null value above it
ffill(s, null) ==
    [n \in 1..Len(s) |->
        LET above == {j \in 1..n : s[j] # null}
        IN  IF above = {} THEN null ELSE s[Max(above)]]

\* one iteration of the WorkoutDate loop: the new last_valid_date
ScanStepResets(last, raw_date) == ParseDayFirst(raw_date)

ScanStep(last, raw_date) ==
    LET parsed_date == ParseDayFirst(raw_date)
    IN  IF parsed_date # None THEN parsed_date ELSE last

\* the whole loop: cleaned_dates, started with last_valid_date = last
RECURSIVE CleanedDatesFrom(_, _)
CleanedDatesFrom(cells, last) ==
    IF cells = <<>> THEN <<>>
    ELSE LET l == ScanStep(last, Head(cells))
         IN  <<l>> \o CleanedDatesFrom(Tail(cells), l)

HasCleanedDate(r) == r.CleanedDate # None
NotNullNumbers(r) == r.Reps.k # "nan" /\ r.WeightKG.k # "nan"
\* pd.to_numeric(errors="coerce") turns text into NaN; dropna then drops it
NumericNumbers(r) == r.Reps.k = "num" /\ r.WeightKG.k = "num"

WithCleanedDate(rows, ids, dates, names, cleaned) ==
    [n \in 1..Len(rows) |->
        [WorkoutID |-> ids[n], WorkoutDate |-> dates[n], ExerciseName |-> names[n],
         Reps |-> rows[n].Reps, WeightKG |-> rows[n].WeightKG,
         CleanedDate |-> cleaned[n]]]

\* importData.py steps 2-6: the frame left after cleaning
ScriptFrame(rows) ==
    LET ids == ffill(Column(rows, "WorkoutID"), NoName)
        names == ffill(Column(rows, "ExerciseName"), NoName)
        dates == Column(rows, "WorkoutDate")
        cleaned == CleanedDatesFrom(dates, None)
        step3 == WithCleanedDate(rows, ids, dates, names, cleaned)
        step4 == SelectSeq(step3, HasCleanedDate)
        step5 == SelectSeq(step4, NotNullNumbers)
    IN  SelectSeq(step5, NumericNumbers)

\* utils.py lines 110-120: the frame left after cleaning
UiFrame(rows) ==
    LET ids == ffill(Column(rows, "WorkoutID"), NoName)
        dates == ffill(Column(rows, "WorkoutDate"), NaNCell)
        names == ffill(Column(rows, "ExerciseName"), NoName)
        cleaned == [n \in 1..Len(rows) |-> ToDatetimeIso(dates[n])]
        filled == WithCleanedDate(rows, ids, dates, names, cleaned)
        step2 == SelectSeq(filled, NotNullNumbers)
        step3 == SelectSeq(step2, NumericNumbers)
    IN  SelectSeq(step3, HasCleanedDate)

\* the records handed to the store: new_workouts rows / workout_data
Payload(frame) ==
    [n \in 1..Len(frame) |->
        [workout_date |-> frame[n].CleanedDate,
         exercise |-> frame[n].ExerciseName,
         sets |-> 1,
         reps |-> IntOf(frame[n].Reps.v),
         weight |-> frame[n].WeightKG.v]]

Clean(imp, rows) ==
    IF imp = "ui" THEN Payload(UiFrame(rows)) ELSE Payload(ScriptFrame(rows))

\* lexicographic (ordinal) order of the names the model uses
NameOrder == <<"Bench Press", "Deadlift", "Squat">>
Rank(name) == CHOOSE n \in 1..Len(NameOrder) : NameOrder[n] = name

\* Series.unique(): the distinct values in order of first appearance
RECURSIVE unique(_)
unique(s) ==
    IF s = <<>> THEN <<>>
    ELSE LET front == unique(SubSeq(s, 1, Len(s) - 1))
             last == s[Len(s)]
         IN  IF \E n \in 1..Len(front) : front[n] = last THEN front
             ELSE Append(front, last)

\* sorted(): insertion of each element before the first greater one
RECURSIVE sorted(_)
InsertSorted(s, x) ==
    LET before == {n \in 1..Len(s) : Rank(s[n]) <= Rank(x)}
        k == IF before = {} THEN 0 ELSE Max(before)
    IN  SubSeq(s, 1, k) \o <<x>> \o SubSeq(s, k + 1, Len(s))
sorted(s) ==
    IF s = <<>> THEN <<>>
    ELSE InsertSorted(sorted(SubSeq(s, 1, Len(s) - 1)), s[Len(s)])

UniqueUnsorted(payload) == unique(Column(payload, "exercise"))

\* sorted(df["ExerciseName"].unique()) / sorted(new_workouts["exercise"].unique())
UniqueExercises(payload) == sorted(unique(Column(payload, "exercise")))

\* sorted() compares a float NaN with a str: TypeError
SortRaises(payload) ==
    LET u == unique(Column(payload, "exercise"))
    IN  Len(u) > 1 /\ \E n \in 1..Len(u) : u[n] = NoName

---------------------------------------------------------------------------
(* The spreadsheets and the store contents the importers are run on *)

RequiredColumns == {"WorkoutID", "WorkoutDate", "ExerciseName", "Reps", "WeightKG"}

DateCells == {NaNCell, TextCell, Slashed(1, 6, 2024), Timestamp(2024, 6, 2)}
ExerciseCells == {NoName, "Bench Press", "Squat"}
\* <<Reps, WeightKG>> of a row
NumberCells == {<<Num(127), Num(225)>>, <<TextNum, Num(225)>>, <<NaNNum, NaNNum>>}

\* WorkoutID is present on the rows that open a group (a dated or labelled row)
Row(date, name, numbers) ==
    [WorkoutID |-> IF date = NaNCell THEN NoName ELSE "1",
     WorkoutDate |-> date, ExerciseName |-> name,
     Reps |-> numbers[1], WeightKG |-> numbers[2]]

Rows == {Row(date, name, numbers) :
            date \in DateCells, name \in ExerciseCells, numbers \in NumberCells}

SeqsUpTo(S, n) == UNION {[1..m -> S] : m \in 0..n}

GoodRow == Row(Timestamp(2024, 6, 2), "Squat", <<Num(127), Num(225)>>)

\* a sheet with every required column, or one lacking some of them
Files ==
    {[cols |-> RequiredColumns, rows |-> r] : r \in SeqsUpTo(Rows, MaxRows)}
    \cup {[cols |-> RequiredColumns \ {c}, rows |-> <<GoodRow>>] : c \in RequiredColumns}

NoFile == [cols |-> {}, rows |-> <<>>]

OldWorkout(id, name) ==
    [id |-> id, workout_date |-> [y |-> 2024, m |-> 5, d |-> 30], exercise |-> name,
     sets |-> 1, reps |-> 5, weight |-> 600]

\* what the tables may hold when an import starts
PriorStores ==
    {[workouts |-> <<>>, exercises |-> <<>>],
     [workouts |-> <<OldWorkout(1, "Deadlift"), OldWorkout(2, "Squat")>>,
      exercises |-> <<[id |-> 1, name |-> "Deadlift"], [id |-> 2, name |-> "Squat"]>>]}

Procs == {1, 2}

Pending == [kind |-> "pending", success |-> FALSE, message |-> "", count |-> 0]
\* return True, f"Successfully imported {len(df)} workouts"
Imported(n) ==
    [kind |-> "pair", success |-> TRUE, message |-> "Successfully imported", count |-> n]
\* return False, f"Error importing Excel file: {str(e)}"
ImportError ==
    [kind |-> "pair", success |-> FALSE, message |-> "Error importing Excel file", count |-> 0]
\* replace_data_from_excel falls off its end
ReturnedNone == [kind |-> "none", success |-> FALSE, message |-> "", count |-> 0]
\* an exception leaves replace_data_from_excel
Raised == [kind |-> "raised", success |-> FALSE, message |-> "", count |-> 0]

\* how an exception at a step of the import reaches the caller
Failed(imp) == IF imp = "ui" THEN ImportError ELSE Raised

\* rows per insert request
chunk_size == 100
RowsPerInsert(imp) == IF imp = "ui" THEN chunk_size ELSE 1

---------------------------------------------------------------------------
(* The store *)

NotMinusOne(r) == r.id # -1
KeepsMatching(table) == table

\* .delete().neq("id", -1): every row whose id is not -1 goes
DeleteAll(table) == SelectSeq(table, LAMBDA r : ~NotMinusOne(r))

\* .insert(rows): each row gets the next identifier
InsertRows(table, rows, first) ==
    table \o [n \in 1..Len(rows) |->
                [id |-> first + n - 1, workout_date |-> rows[n].workout_date,
                 exercise |-> rows[n].exercise, sets |-> rows[n].sets,
                 reps |-> rows[n].reps, weight |-> rows[n].weight]]

\* .insert([{"name": ex} ...]) on the exercises table
InsertNames(table, names, first) ==
    table \o [n \in 1..Len(names) |-> [id |-> first + n - 1, name |-> names[n]]]

\* a NaN in the JSON body: the request fails
Rejects(rows) == \E n \in 1..Len(rows) : rows[n].exercise = NoName

Logged(p, op, outcome) ==
    [log EXCEPT ![p] = Append(@, [op |-> op, outcome |-> outcome])]

Finish(p, res) ==
    /\ pc' = [pc EXCEPT ![p] = "done"]
    /\ result' = [result EXCEPT ![p] = res]

---------------------------------------------------------------------------
(* st.cache_data and the session state of the page *)

\* an absent cache entry, and an entry holding a function's result
NoEntry == [hit |-> FALSE, value |-> <<>>]
Entry(v) == [hit |-> TRUE, value |-> v]

\* the cache with no entry: get_exercise_list, load_data(True), load_data(False)
Cleared == [names |-> NoEntry, data |-> [l \in BOOLEAN |-> NoEntry]]

KeptEntries == cache

\* st.cache_data.clear(): every entry of every cached function goes
clear == Cleared

\* "edit_workout" not in st.session_state
NoEdit == [id |-> 0, exercise |-> "", reps |-> 0, weight |-> 0]

NoRequest ==
    [kind |-> "none", id |-> 0, date |-> None, exercise |-> "",
     reps |-> 0, weight |-> 0, before |-> <<>>]

---------------------------------------------------------------------------
(* The import, step by step *)

MissingColumnsIgnored(file) == {}

\* the required columns the sheet lacks
MissingColumns(file) == RequiredColumns \ file.cols

\* read the sheet and clean it (no store request yet)
StartImport(p) ==
    /\ pc[p] = "idle"
    /\ upload[p] # NoFile
    /\ IF MissingColumns(upload[p]) # {}
       THEN \* ui: read_excel(usecols=...) raises; script: df["..."] raises KeyError
            /\ Finish(p, Failed(importer[p]))
            /\ UNCHANGED df
       ELSE /\ df' = [df EXCEPT ![p] = Clean(importer[p], upload[p].rows)]
            /\ pc' = [pc EXCEPT ![p] = "delete_workouts"]
            /\ UNCHANGED result
    /\ UNCHANGED <<storeVars, upload, importer, i, unique_exercises, log, scanVars, sessionVars>>

AfterWorkoutsInsertsNames(p) ==
    /\ pc' = [pc EXCEPT ![p] = "insert_exercises"]
    /\ unique_exercises' = [unique_exercises EXCEPT ![p] = UniqueExercises(df[p])]
    /\ UNCHANGED result

\* leaving the workout insert loop: the ui sorts the names before its next request
AfterWorkouts(p) ==
    IF importer[p] = "ui" /\ SortRaises(df[p])
    THEN /\ Finish(p, ImportError)
         /\ UNCHANGED unique_exercises
    ELSE /\ pc' = [pc EXCEPT ![p] = "delete_exercises"]
         /\ unique_exercises' =
                [unique_exercises EXCEPT ![p] =
                    IF importer[p] = "ui" THEN UniqueExercises(df[p]) ELSE @]
         /\ UNCHANGED result

DeleteAllWorkouts(p) ==
    /\ pc[p] = "delete_workouts"
    /\ workouts' = DeleteAll(workouts)
    /\ log' = Logged(p, "delete_workouts", "ok")
    /\ i' = [i EXCEPT ![p] = 1]
    /\ IF Len(df[p]) = 0
       THEN AfterWorkouts(p)
       ELSE /\ pc' = [pc EXCEPT ![p] = "insert_workouts"]
            /\ UNCHANGED <<unique_exercises, result>>
    /\ UNCHANGED <<exercises, nextId, nextExerciseId, upload, importer, df, scanVars, sessionVars>>

InsertWorkouts(p) ==
    /\ pc[p] = "insert_workouts"
    /\ LET last == Min2(i[p] + RowsPerInsert(importer[p]) - 1, Len(df[p]))
           chunk == SubSeq(df[p], i[p], last)
       IN  IF Rejects(chunk)
           THEN /\ log' = Logged(p, "insert_workouts", "rejected")
                /\ Finish(p, Failed(importer[p]))
                /\ UNCHANGED <<workouts, nextId, i, unique_exercises>>
           ELSE /\ workouts' = InsertRows(workouts, chunk, nextId)
                /\ nextId' = nextId + Len(chunk)
                /\ log' = Logged(p, "insert_workouts", "ok")
                /\ i' = [i EXCEPT ![p] = last + 1]
                /\ IF last + 1 > Len(df[p])
                   THEN AfterWorkouts(p)
                   ELSE UNCHANGED <<pc, unique_exercises, result>>
    /\ UNCHANGED <<exercises, nextExerciseId, upload, importer, df, scanVars, sessionVars>>

DeleteAllExercises(p) ==
    /\ pc[p] = "delete_exercises"
    /\ exercises' = DeleteAll(exercises)
    /\ log' = Logged(p, "delete_exercises", "ok")
    /\ i' = [i EXCEPT ![p] = 1]
    /\ IF importer[p] = "ui"
       THEN /\ pc' = [pc EXCEPT ![p] = "insert_exercises"]
            /\ UNCHANGED <<unique_exercises, result>>
       ELSE IF SortRaises(df[p])
       THEN /\ Finish(p, Raised)
            /\ UNCHANGED unique_exercises
       ELSE /\ unique_exercises' = [unique_exercises EXCEPT ![p] = UniqueExercises(df[p])]
            /\ IF UniqueExercises(df[p]) = <<>>
               THEN Finish(p, ReturnedNone)
               ELSE /\ pc' = [pc EXCEPT ![p] = "insert_exercises"]
                    /\ UNCHANGED result
    /\ UNCHANGED <<workouts, nextId, nextExerciseId, upload, importer, df, scanVars, sessionVars>>

InsertExercises(p) ==
    /\ pc[p] = "insert_exercises"
    /\ log' = Logged(p, "insert_exercises", "ok")
    /\ IF importer[p] = "ui"
       THEN \* one request with every name, then the success pair
            /\ exercises' = InsertNames(exercises, unique_exercises[p], nextExerciseId)
            /\ nextExerciseId' = nextExerciseId + Len(unique_exercises[p])
            /\ cache' = clear
            /\ Finish(p, Imported(Len(df[p])))
            /\ UNCHANGED i
       ELSE \* one request per name
            /\ exercises' = InsertNames(exercises, <<unique_exercises[p][i[p]]>>, nextExerciseId)
            /\ nextExerciseId' = nextExerciseId + 1
            /\ i' = [i EXCEPT ![p] = @ + 1]
            /\ UNCHANGED cache
            /\ IF i[p] + 1 > Len(unique_exercises[p])
               THEN Finish(p, ReturnedNone)
               ELSE UNCHANGED <<pc, result>>
    /\ UNCHANGED <<workouts, nextId, upload, importer, df, unique_exercises, scanVars, pageVars>>

\* the store (or the network) fails the request the import is about to make
StoreUnavailable(p) ==
    /\ pc[p] \in {"delete_workouts", "insert_workouts", "delete_exercises", "insert_exercises"}
    /\ log' = Logged(p, pc[p], "unavailable")
    /\ Finish(p, Failed(importer[p]))
    /\ UNCHANGED <<storeVars, upload, importer, df, i, unique_exercises, scanVars, sessionVars>>

ImportStep(p) ==
    \/ StartImport(p)
    \/ DeleteAllWorkouts(p)
    \/ InsertWorkouts(p)
    \/ DeleteAllExercises(p)
    \/ InsertExercises(p)
    \/ StoreUnavailable(p)

Idle(f) == [p \in Procs |-> f]

\* one caller, either importer, any sheet, against any prior store contents
Init ==
    /\ \E s \in PriorStores :
          /\ workouts = s.workouts
          /\ exercises = s.exercises
          /\ nextId = Len(s.workouts) + 1
          /\ nextExerciseId = Len(s.exercises) + 1
    /\ \E f \in Files : upload = [Idle(NoFile) EXCEPT ![1] = f]
    /\ \E imp \in {"ui", "script"} : importer = Idle(imp)
    /\ pc = Idle("idle")
    /\ df = Idle(<<>>)
    /\ i = Idle(1)
    /\ unique_exercises = Idle(<<>>)
    /\ result = Idle(Pending)
    /\ log = Idle(<<>>)
    /\ scan_rows = <<>>
    /\ idx = 1
    /\ last_valid_date = None
    /\ cleaned_dates = <<>>
    /\ cache = Cleared
    /\ edit_workout = NoEdit
    /\ request = NoRequest
    /\ all_ok = TRUE
    /\ started = 0

Next == \E p \in Procs : ImportStep(p)

Spec == Init /\ [][Next]_vars

---------------------------------------------------------------------------
(* The WorkoutDate scan of importData.py on its own, one row per step *)

ScanCells ==
    {NaNCell, TextCell, Slashed(1, 6, 2024), Slashed(5, 3, 2024), Slashed(5, 13, 2024),
     Slashed(31, 2, 2024), Timestamp(2024, 6, 2), Timestamp(2024, 6, 15)}

ScanRow ==
    /\ idx <= Len(scan_rows)
    /\ last_valid_date' = ScanStep(last_valid_date, scan_rows[idx])
    /\ cleaned_dates' = Append(cleaned_dates, last_valid_date')
    /\ idx' = idx + 1
    /\ UNCHANGED <<storeVars, importVars, scan_rows, sessionVars>>

InitFill ==
    /\ workouts = <<>>
    /\ exercises = <<>>
    /\ nextId = 1
    /\ nextExerciseId = 1
    /\ upload = Idle(NoFile)
    /\ importer = Idle("script")
    /\ pc = Idle("idle")
    /\ df = Idle(<<>>)
    /\ i = Idle(1)
    /\ unique_exercises = Idle(<<>>)
    /\ result = Idle(Pending)
    /\ log = Idle(<<>>)
    /\ scan_rows \in SeqsUpTo(ScanCells, MaxCells)
    /\ idx = 1
    /\ last_valid_date = None
    /\ cleaned_dates = <<>>
    /\ cache = Cleared
    /\ edit_workout = NoEdit
    /\ request = NoRequest
    /\ all_ok = TRUE
    /\ started = 0

NextFill == ScanRow

SpecFill == InitFill /\ [][NextFill]_vars

---------------------------------------------------------------------------
(* Two callers importing through the ui at once, request by request *)

RaceRows ==
    {GoodRow,
     Row(Timestamp(2024, 6, 3), "Bench Press", <<Num(100), Num(200)>>),
     Row(TextCell, "Squat", <<Num(80), Num(225)>>)}

RaceFiles == {[cols |-> RequiredColumns, rows |-> r] : r \in SeqsUpTo(RaceRows, MaxRaceRows)}

InitRace ==
    /\ \E s \in PriorStores :
          /\ workouts = s.workouts
          /\ exercises = s.exercises
          /\ nextId = Len(s.workouts) + 1
          /\ nextExerciseId = Len(s.exercises) + 1
    /\ upload \in [Procs -> RaceFiles]
    /\ importer = Idle("ui")
    /\ pc = Idle("idle")
    /\ df = Idle(<<>>)
    /\ i = Idle(1)
    /\ unique_exercises = Idle(<<>>)
    /\ result = Idle(Pending)
    /\ log = Idle(<<>>)
    /\ scan_rows = <<>>
    /\ idx = 1
    /\ last_valid_date = None
    /\ cleaned_dates = <<>>
    /\ cache = Cleared
    /\ edit_workout = NoEdit
    /\ request = NoRequest
    /\ all_ok = TRUE
    /\ started = 0

NextRace == \E p \in Procs : ImportStep(p)

SpecRace == InitRace /\ [][NextRace]_vars

---------------------------------------------------------------------------
(* One session of the page (main.py) over the store: log, edit, delete,    *)
(* replicate and import, one operation at a time, request by request       *)

\* most operations a session begins
MaxOps == 3

\* datetime.now().date() throughout the session
Today == [y |-> 2024, m |-> 7, d |-> 15]
\* timedelta(days=45)
days == 45
\* st.session_state.current_reps and current_weight (20.0) as first set
current_reps == 10
current_weight == 200

\* date.toordinal()
RECURSIVE DaysBeforeMonth(_, _)
DaysBeforeMonth(y, m) ==
    IF m = 1 THEN 0 ELSE DaysBeforeMonth(y, m - 1) + DaysInMonth(y, m - 1)
DaysBeforeYear(y) == (y - 1) * 365 + (y - 1) \div 4 - (y - 1) \div 100 + (y - 1) \div 400
toordinal(date) == DaysBeforeYear(date.y) + DaysBeforeMonth(date.y, date.m) + date.d

\* .gte("workout_date", str(last_date)), last_date 45 days before today
InWindow(r) == toordinal(r.workout_date) >= toordinal(Today) - days

\* .order("workout_date"): ascending; rows of one date stay in the store's order
RECURSIVE order(_)
order(rows) ==
    IF rows = <<>> THEN <<>>
    ELSE LET front == order(SubSeq(rows, 1, Len(rows) - 1))
             x == rows[Len(rows)]
             before == {n \in 1..Len(front) :
                          toordinal(front[n].workout_date) <= toordinal(x.workout_date)}
             k == IF before = {} THEN 0 ELSE Max(before)
         IN  SubSeq(front, 1, k) \o <<x>> \o SubSeq(front, k + 1, Len(front))

\* the rows the query of load_data gets from the store
QueryWorkouts(last_45_days) ==
    order(SelectSeq(workouts, LAMBDA r : last_45_days => InWindow(r)))

\* load_data(last_45_days) behind @st.cache_data(ttl=600)
load_data(last_45_days) ==
    IF cache.data[last_45_days].hit THEN cache.data[last_45_days].value
    ELSE QueryWorkouts(last_45_days)

\* the names the query of get_exercise_list gets from the store, sorted
QueryNames == sorted(Column(exercises, "name"))

\* get_exercise_list() behind @st.cache_data(ttl=600)
get_exercise_list == IF cache.names.hit THEN cache.names.value ELSE QueryNames

\* a run of the page down to "workouts_df = load_page_data(page)" and
\* "exercises = get_cached_exercise_list()": both results are now cached
Rendered(show_all_data) ==
    [names |-> Entry(get_exercise_list),
     data |-> [cache.data EXCEPT ![~show_all_data] = Entry(load_data(~show_all_data))]]

\* what the exercise widget may hold at submit
TypedNames == {" ", "squat", "Bench Press"}
\* str.strip() and str.title() on those
strip(s) == IF s = " " THEN "" ELSE s
title(s) == IF s = "squat" THEN "Squat" ELSE s

\* what the date widget holds at submit: st.session_state.workout_date, today
SelectedDates == {Today}

\* st.stop() after "Please enter an exercise name"
Stopped == [kind |-> "stopped", success |-> FALSE, message |-> "", count |-> 0]
\* return True, f"Successfully replicated {len(source_workouts)} workouts"
Replicated(n) ==
    [kind |-> "pair", success |-> TRUE, message |-> "Successfully replicated", count |-> n]
\* return False, "No workouts found for the selected date"
NoWorkoutsFound ==
    [kind |-> "pair", success |-> FALSE,
     message |-> "No workouts found for the selected date", count |-> 0]
\* return False, f"Error replicating workouts: {str(e)}"
ReplicateError ==
    [kind |-> "pair", success |-> FALSE, message |-> "Error replicating workouts", count |-> 0]

\* the page waits for a click, and the session may still begin an operation
AtRest(p) == pc[p] = "idle" /\ upload[p] = NoFile /\ started < MaxOps

\* the Edit button of a row of the frame the page shows
ClickEdit(p) ==
    /\ AtRest(p)
    /\ \E show_all_data \in BOOLEAN :
         \E n \in 1..Len(load_data(~show_all_data)) :
            LET row == load_data(~show_all_data)[n]
            IN  /\ edit_workout' = [id |-> row.id, exercise |-> row.exercise,
                                    reps |-> row.reps, weight |-> row.weight]
                /\ cache' = Rendered(show_all_data)
    /\ started' = started + 1
    /\ UNCHANGED <<storeVars, importVars, scanVars, request, all_ok>>

\* "Save Workout" submitted: down to the first store request of the handler
Submit(p) ==
    /\ AtRest(p)
    /\ started' = started + 1
    /\ \E show_all_data \in BOOLEAN, typed \in TypedNames, selected_date \in SelectedDates :
         LET exercise_clean == strip(typed)
         IN  /\ cache' = Rendered(show_all_data)
             /\ IF exercise_clean = ""
                THEN /\ Finish(p, Stopped)
                     /\ UNCHANGED request
                ELSE /\ request' =
                          [kind |-> IF edit_workout # NoEdit THEN "edit" ELSE "save",
                           id |-> edit_workout.id, date |-> selected_date,
                           exercise |-> title(exercise_clean), reps |-> current_reps,
                           weight |-> current_weight, before |-> workouts]
                     /\ pc' = [pc EXCEPT ![p] =
                                  IF edit_workout # NoEdit THEN "delete_workout"
                                  ELSE "save_workout"]
                     /\ UNCHANGED result
    /\ UNCHANGED <<storeVars, upload, importer, df, i, unique_exercises, log, scanVars,
                   edit_workout, all_ok>>

\* the Delete button of a row of the frame the page shows
ClickDelete(p) ==
    /\ AtRest(p)
    /\ \E show_all_data \in BOOLEAN :
         \E n \in 1..Len(load_data(~show_all_data)) :
            /\ request' = [NoRequest EXCEPT !.kind = "delete",
                                            !.id = load_data(~show_all_data)[n].id,
                                            !.before = workouts]
            /\ cache' = Rendered(show_all_data)
    /\ pc' = [pc EXCEPT ![p] = "delete_workout"]
    /\ started' = started + 1
    /\ UNCHANGED <<storeVars, upload, importer, df, i, unique_exercises, result, log,
                   scanVars, edit_workout, all_ok>>

\* .delete().eq("id", workout_id): the rows a delete request removes
Matches(r) == r.id = request.id

\* delete_workout(workout_id), then what its caller does next
DeleteWorkout(p) ==
    /\ pc[p] = "delete_workout"
    /\ workouts' = SelectSeq(workouts, LAMBDA r : ~Matches(r))
    /\ log' = Logged(p, "delete_workout", "ok")
    /\ cache' = clear
    /\ IF request.kind = "edit"
       THEN /\ edit_workout' = NoEdit
            /\ pc' = [pc EXCEPT ![p] = "save_workout"]
            /\ UNCHANGED result
       ELSE /\ Finish(p, ReturnedNone)
            /\ UNCHANGED edit_workout
    /\ UNCHANGED <<exercises, nextId, nextExerciseId, upload, importer, df, i,
                   unique_exercises, scanVars, request, all_ok, started>>

\* "if exercise not in current_exercises": the name is known, save_workout
\* returns and the page clears the cache; or the name is to be inserted
KnownName(current_exercises) ==
    \E n \in 1..Len(current_exercises) : current_exercises[n] = request.exercise

\* save_workout: the workout insert, and the cached exercise list if there is one
SaveWorkout(p) ==
    /\ pc[p] = "save_workout"
    /\ workouts' = InsertRows(workouts,
                      <<[workout_date |-> request.date, exercise |-> request.exercise,
                         sets |-> 1, reps |-> request.reps, weight |-> request.weight]>>,
                      nextId)
    /\ nextId' = nextId + 1
    /\ log' = Logged(p, "save_workout", "ok")
    /\ IF ~cache.names.hit
       THEN /\ pc' = [pc EXCEPT ![p] = "get_exercise_list"]
            /\ UNCHANGED <<cache, result>>
       ELSE IF KnownName(cache.names.value)
       THEN /\ Finish(p, ReturnedNone)
            /\ cache' = clear
       ELSE /\ pc' = [pc EXCEPT ![p] = "insert_exercise"]
            /\ UNCHANGED <<cache, result>>
    /\ UNCHANGED <<exercises, nextExerciseId, upload, importer, df, i, unique_exercises,
                   scanVars, pageVars>>

\* save_workout: get_exercise_list() without a cached result asks the store
ReadExerciseList(p) ==
    /\ pc[p] = "get_exercise_list"
    /\ log' = Logged(p, "get_exercise_list", "ok")
    /\ IF KnownName(QueryNames)
       THEN /\ Finish(p, ReturnedNone)
            /\ cache' = clear
       ELSE /\ pc' = [pc EXCEPT ![p] = "insert_exercise"]
            /\ cache' = [cache EXCEPT !.names = Entry(QueryNames)]
            /\ UNCHANGED result
    /\ UNCHANGED <<storeVars, upload, importer, df, i, unique_exercises, scanVars, pageVars>>

\* save_workout: the name insert, the cache cleared, back in the page
InsertExercise(p) ==
    /\ pc[p] = "insert_exercise"
    /\ exercises' = InsertNames(exercises, <<request.exercise>>, nextExerciseId)
    /\ nextExerciseId' = nextExerciseId + 1
    /\ log' = Logged(p, "insert_exercise", "ok")
    /\ cache' = clear
    /\ Finish(p, ReturnedNone)
    /\ UNCHANGED <<workouts, nextId, upload, importer, df, i, unique_exercises,
                   scanVars, pageVars>>

\* df[df['workout_date'].dt.date == source_date]
OnDate(frame, source_date) == SelectSeq(frame, LAMBDA r : r.workout_date = source_date)

\* the dates the history view lists
ShownDates(show_all_data) ==
    {load_data(~show_all_data)[n].workout_date : n \in 1..Len(load_data(~show_all_data))}

\* "Replicate All Workouts from {date}" of a date the history view lists
ClickReplicate(p) ==
    /\ AtRest(p)
    /\ \E show_all_data \in BOOLEAN :
         \E source_date \in ShownDates(show_all_data) :
            /\ request' = [NoRequest EXCEPT !.kind = "replicate", !.date = source_date,
                                            !.before = workouts]
            /\ cache' = Rendered(show_all_data)
    /\ pc' = [pc EXCEPT ![p] = "load_data"]
    /\ started' = started + 1
    /\ UNCHANGED <<storeVars, upload, importer, df, i, unique_exercises, result, log,
                   scanVars, edit_workout, all_ok>>

\* replicate_day_workouts: df = load_data(), the rows of source_date, the copies
ReplicateLoad(p) ==
    /\ pc[p] = "load_data"
    /\ cache' = [cache EXCEPT !.data[TRUE] = Entry(load_data(TRUE))]
    /\ log' = IF cache.data[TRUE].hit THEN log ELSE Logged(p, "load_data", "ok")
    /\ LET source_workouts == OnDate(load_data(TRUE), request.date)
       IN  IF load_data(TRUE) = <<>>
           THEN \* pd.DataFrame() has no 'workout_date' column: KeyError, caught
                /\ Finish(p, ReplicateError)
                /\ UNCHANGED df
           ELSE IF source_workouts = <<>>
           THEN /\ Finish(p, NoWorkoutsFound)
                /\ UNCHANGED df
           ELSE /\ df' = [df EXCEPT ![p] =
                            [n \in 1..Len(source_workouts) |->
                               [workout_date |-> Today,
                                exercise |-> source_workouts[n].exercise,
                                sets |-> source_workouts[n].sets,
                                reps |-> source_workouts[n].reps,
                                weight |-> source_workouts[n].weight]]]
                /\ pc' = [pc EXCEPT ![p] = "replicate_insert"]
                /\ UNCHANGED result
    /\ UNCHANGED <<storeVars, upload, importer, i, unique_exercises, scanVars, pageVars>>

\* replicate_day_workouts: one insert of every copy, the cache cleared
ReplicateInsert(p) ==
    /\ pc[p] = "replicate_insert"
    /\ workouts' = InsertRows(workouts, df[p], nextId)
    /\ nextId' = nextId + Len(df[p])
    /\ log' = Logged(p, "replicate_insert", "ok")
    /\ cache' = clear
    /\ Finish(p, Replicated(Len(df[p])))
    /\ UNCHANGED <<exercises, nextExerciseId, upload, importer, df, i, unique_exercises,
                   scanVars, pageVars>>

\* the store (or the network) fails the request the operation is about to make:
\* save_workout and delete_workout re-raise, replicate_day_workouts returns a pair
RequestFails(p) ==
    /\ \/ pc[p] \in {"delete_workout", "save_workout", "get_exercise_list",
                     "insert_exercise", "replicate_insert"}
       \/ pc[p] = "load_data" /\ ~cache.data[TRUE].hit
    /\ log' = Logged(p, pc[p], "unavailable")
    /\ Finish(p, IF request.kind = "replicate" THEN ReplicateError ELSE Raised)
    /\ UNCHANGED <<storeVars, upload, importer, df, i, unique_exercises, scanVars,
                   sessionVars>>

SessionRows ==
    {GoodRow, Row(Timestamp(2024, 6, 3), "Bench Press", <<Num(100), Num(200)>>)}

\* the sheets a session imports: empty, or one row
SessionFiles ==
    {[cols |-> RequiredColumns, rows |-> r] : r \in {<<>>} \cup {<<x>> : x \in SessionRows}}

\* import_excel_workouts(uploaded_file) is called
CallImport(p) ==
    /\ AtRest(p)
    /\ \E f \in SessionFiles :
          /\ upload' = [upload EXCEPT ![p] = f]
    /\ started' = started + 1
    /\ request' = [NoRequest EXCEPT !.kind = "import", !.before = workouts]
    /\ UNCHANGED <<storeVars, importer, pc, df, i, unique_exercises, result, log,
                   scanVars, cache, edit_workout, all_ok>>

\* an operation that ran to its end without an error
Completed(res) ==
    (res.kind = "pair" /\ res.success) \/ res.kind = "none" \/ res.kind = "stopped"

\* the operation is over; the page waits for the next one
Return(p) ==
    /\ pc[p] = "done"
    /\ all_ok' = (all_ok /\ Completed(result[p]))
    /\ pc' = [pc EXCEPT ![p] = "idle"]
    /\ upload' = [upload EXCEPT ![p] = NoFile]
    /\ df' = [df EXCEPT ![p] = <<>>]
    /\ i' = [i EXCEPT ![p] = 1]
    /\ unique_exercises' = [unique_exercises EXCEPT ![p] = <<>>]
    /\ result' = [result EXCEPT ![p] = Pending]
    /\ log' = [log EXCEPT ![p] = <<>>]
    /\ request' = NoRequest
    /\ UNCHANGED <<storeVars, importer, scanVars, cache, edit_workout, started>>

\* ttl=600: a cached result older than ten minutes is dropped
Expire ==
    /\ \/ /\ cache.names.hit
          /\ cache' = [cache EXCEPT !.names = NoEntry]
       \/ \E l \in BOOLEAN :
             /\ cache.data[l].hit
             /\ cache' = [cache EXCEPT !.data[l] = NoEntry]
    /\ UNCHANGED <<storeVars, importVars, scanVars, pageVars>>

InitSession ==
    /\ \E s \in PriorStores :
          /\ workouts = s.workouts
          /\ exercises = s.exercises
          /\ nextId = Len(s.workouts) + 1
          /\ nextExerciseId = Len(s.exercises) + 1
    /\ upload = Idle(NoFile)
    /\ importer = Idle("ui")
    /\ pc = Idle("idle")
    /\ df = Idle(<<>>)
    /\ i = Idle(1)
    /\ unique_exercises = Idle(<<>>)
    /\ result = Idle(Pending)
    /\ log = Idle(<<>>)
    /\ scan_rows = <<>>
    /\ idx = 1
    /\ last_valid_date = None
    /\ cleaned_dates = <<>>
    /\ cache = Cleared
    /\ edit_workout = NoEdit
    /\ request = NoRequest
    /\ all_ok = TRUE
    /\ started = 0

SessionStep(p) ==
    \/ ClickEdit(p)
    \/ Submit(p)
    \/ ClickDelete(p)
    \/ DeleteWorkout(p)
    \/ SaveWorkout(p)
    \/ ReadExerciseList(p)
    \/ InsertExercise(p)
    \/ ClickReplicate(p)
    \/ ReplicateLoad(p)
    \/ ReplicateInsert(p)
    \/ RequestFails(p)
    \/ CallImport(p)
    \/ Return(p)

NextSession == ImportStep(1) \/ SessionStep(1) \/ Expire

SpecSession == InitSession /\ [][NextSession]_vars

---------------------------------------------------------------------------
(* What the claims speak of *)

\* the stored workouts without their identifiers
Records(table) ==
    [n \in 1..Len(table) |->
        [workout_date |-> table[n].workout_date, exercise |-> table[n].exercise,
         sets |-> table[n].sets, reps |-> table[n].reps, weight |-> table[n].weight]]

Range(s) == {s[n] : n \in 1..Len(s)}

\* the import ended well: the ui's (True, ...) pair, or the script returning
Success(p) == (result[p].kind = "pair" /\ result[p].success) \/ result[p].kind = "none"

\* a request of the import met a store that was down
Unavailable(p) == \E n \in 1..Len(log[p]) : log[p][n].outcome = "unavailable"

\* the date of the latest cell at or above row n that parse(dayfirst=True) accepts
LatestParsed(cells, n) ==
    LET ok == {j \in 1..n : ParseDayFirst(cells[j]) # None}
    IN  IF ok = {} THEN None ELSE ParseDayFirst(cells[Max(ok)])

\* the date of the latest cell at or above row n that the ui's to_datetime accepts
LatestIso(cells, n) ==
    LET ok == {j \in 1..n : ToDatetimeIso(cells[j]) # None}
    IN  IF ok = {} THEN None ELSE ToDatetimeIso(cells[Max(ok)])

\* the date row n should carry, each importer judged by its own date parser
ResolvedDate(imp, rows, n) ==
    IF imp = "ui" THEN LatestIso(Column(rows, "WorkoutDate"), n)
    ELSE LatestParsed(Column(rows, "WorkoutDate"), n)

\* C1: at every step of the WorkoutDate scan each row scanned so far has got one
\* resolved date, the date parsed from the latest cell at or above it that parses
\* (None when no such cell), and last_valid_date is that date for the last row
\* scanned: a cell that does not parse changes nothing and stops nothing.
ForwardFillResolved ==
    /\ Len(cleaned_dates) = idx - 1
    /\ \A n \in 1..Len(cleaned_dates) : cleaned_dates[n] = LatestParsed(scan_rows, n)
    /\ last_valid_date = LatestParsed(scan_rows, idx - 1)

\* a finished scan: an annotation first (no date yet), later an annotation below
\* a dated row, which carries that row's date
ForwardFillCarried ==
    /\ idx = Len(scan_rows) + 1
    /\ Len(scan_rows) >= 3
    /\ scan_rows[1] = TextCell /\ cleaned_dates[1] = None
    /\ \E n \in 2..(Len(scan_rows) - 1) :
          /\ ParseDayFirst(scan_rows[n]) # None
          /\ scan_rows[n + 1] \in {TextCell, NaNCell}
          /\ cleaned_dates[n + 1] = ParseDayFirst(scan_rows[n])

\* the dates the ui import should persist: one per row with numeric reps and
\* weight and a valid date at or above it, that date
ExpectedUiDates(rows) ==
    LET all == [n \in 1..Len(rows) |->
                   [ok |-> NumericNumbers(rows[n]),
                    date |-> LatestIso(Column(rows, "WorkoutDate"), n)]]
    IN  Column(SelectSeq(all, LAMBDA e : e.ok /\ e.date # None), "date")

\* the sheet opens with a named exercise, so every row has one after forward-fill
NamedFromTop(rows) == rows # <<>> /\ rows[1].ExerciseName # NoName

\* C2: after a ui import that succeeded (of a sheet that names its exercise from
\* the first row on), the persisted rows are the rows with valid reps and weight
\* that have a valid date at or above them, each with the most recent such date:
\* rows before the first date are gone, and a row whose own WorkoutDate is
\* annotation text keeps the date above it.
LeadingAnnotationFill ==
    \A p \in Procs :
        (importer[p] = "ui" /\ pc[p] = "done" /\ Success(p) /\ NamedFromTop(upload[p].rows))
        => Column(workouts, "workout_date") = ExpectedUiDates(upload[p].rows)

\* each name once, in ascending order
StrictlyAscending(names) ==
    \A a, b \in 1..Len(names) : a < b => Rank(names[a]) < Rank(names[b])

\* C3: after an import that succeeded (the ui's success pair, the script returning)
\* the workouts table holds exactly the cleaned records of the sheet in sheet order,
\* whatever it held before, and the exercises table holds exactly the distinct
\* exercise names of those records, each once, ascending.
ReplaceAllResult ==
    \A p \in Procs :
        (pc[p] = "done" /\ Success(p))
        => /\ Records(workouts) = Clean(importer[p], upload[p].rows)
           /\ StrictlyAscending(Column(exercises, "name"))
           /\ Range(Column(exercises, "name")) = Range(Column(workouts, "exercise"))

\* a successful import over a store that held two rows: two records under two
\* names that the sheet lists in descending order
ReplacedNonEmptyStore ==
    /\ pc[1] = "done" /\ Success(1)
    /\ Len(workouts) = 2
    /\ workouts[1].id = 3
    /\ workouts[1].exercise = "Squat" /\ workouts[2].exercise = "Bench Press"
    /\ Column(exercises, "name") = <<"Bench Press", "Squat">>

PhaseRank(op) ==
    CASE op = "delete_workouts" -> 1
      [] op = "insert_workouts" -> 2
      [] op = "delete_exercises" -> 3
      [] op = "insert_exercises" -> 4

\* C4: the requests an import has issued so far come in the order delete-all
\* workouts, workout inserts, delete-all exercises, exercise inserts: each
\* delete-all once, the first request the workouts delete-all, no exercise insert
\* without the exercises delete-all before it; a successful import has issued
\* both delete-alls.
ReplaceOrder ==
    \A p \in Procs :
        LET ops == Column(log[p], "op")
        IN  /\ \A a, b \in 1..Len(ops) :
                   a < b => /\ PhaseRank(ops[a]) <= PhaseRank(ops[b])
                            /\ ops[a] = ops[b] => ops[a] \in {"insert_workouts", "insert_exercises"}
            /\ ops # <<>> => ops[1] = "delete_workouts"
            /\ \A b \in 1..Len(ops) :
                   ops[b] = "insert_exercises"
                   => \E a \in 1..(b - 1) : ops[a] = "delete_exercises"
            /\ (pc[p] = "done" /\ Success(p))
               => {"delete_workouts", "delete_exercises"} \subseteq Range(ops)

\* an import that went through all four kinds of request
AllPhasesIssued ==
    /\ pc[1] = "done" /\ Success(1)
    /\ Column(log[1], "op") =
          <<"delete_workouts", "insert_workouts", "insert_workouts",
            "delete_exercises", "insert_exercises", "insert_exercises">>

\* C5: a ui import of a sheet lacking a required column issues no request and
\* changes no table at any step, and ends with the failure pair.
MissingColumnsNoEffect ==
    [][\A p \in Procs :
          (importer[p] = "ui" /\ upload[p] # NoFile /\ ~(RequiredColumns \subseteq upload[p].cols))
          => /\ workouts' = workouts /\ exercises' = exercises
             /\ log'[p] = <<>>
             /\ pc'[p] \in {"idle", "done"}
             /\ pc'[p] = "done" => result'[p] = ImportError]_vars

\* the ui import of a sheet without its Reps column has failed; the rows the store
\* held are still there
MissingColumnRejected ==
    /\ importer[1] = "ui" /\ pc[1] = "done"
    /\ upload[1].cols = RequiredColumns \ {"Reps"}
    /\ result[1] = ImportError
    /\ Len(workouts) = 2 /\ Len(exercises) = 2

\* C6: when a request of the import fails, the import ends there (the failed
\* request is its last) and hands its caller a (False, message) pair, whichever
\* importer ran.
StoreFailureReported ==
    \A p \in Procs :
        (pc[p] = "done" /\ Unavailable(p))
        => /\ log[p][Len(log[p])].outcome = "unavailable"
           /\ result[p].kind = "pair" /\ ~result[p].success

\* rows of the sheet without numeric reps and weight, or with no date resolved yet
DroppedRows(imp, rows) ==
    {n \in 1..Len(rows) : ~NumericNumbers(rows[n]) \/ ResolvedDate(imp, rows, n) = None}

\* C7: after an import that succeeded (of a sheet that names its exercise from the
\* first row on) the number of persisted workouts (the count of the ui's message)
\* is at most the number of rows of the sheet, and is that number less the rows
\* without numeric reps and weight or without a resolved date.
PersistedCount ==
    \A p \in Procs :
        (pc[p] = "done" /\ Success(p) /\ NamedFromTop(upload[p].rows))
        => /\ Len(workouts) <= Len(upload[p].rows)
           /\ Len(workouts) =
                 Len(upload[p].rows) - Cardinality(DroppedRows(importer[p], upload[p].rows))
           /\ importer[p] = "ui" => result[p].count = Len(workouts)

AllTextDates(rows) == \A n \in 1..Len(rows) : rows[n].WorkoutDate = TextCell

\* C8: a ui import of a sheet whose WorkoutDate cells are all annotation text,
\* with the store answering every request, ends with the success pair and count 0
\* and leaves both tables empty.
AllTextDatesClearStore ==
    \A p \in Procs :
        (/\ importer[p] = "ui" /\ pc[p] = "done"
         /\ upload[p].cols = RequiredColumns /\ AllTextDates(upload[p].rows)
         /\ ~Unavailable(p))
        => /\ result[p] = Imported(0)
           /\ workouts = <<>>
           /\ exercises = <<>>

\* two annotation rows with valid numbers imported over a store that held rows
TextOnlySheetImported ==
    /\ importer[1] = "ui" /\ pc[1] = "done" /\ Success(1)
    /\ Len(upload[1].rows) = 2 /\ AllTextDates(upload[1].rows)
    /\ \A n \in 1..2 : NumericNumbers(upload[1].rows[n])
    /\ nextId = 3 /\ nextExerciseId = 3
    /\ workouts = <<>> /\ exercises = <<>>

\* C9: every persisted workout has a date, a non-blank exercise and sets = 1, and
\* an import whose sheet has the required columns and whose requests the store
\* answered has succeeded: the rows it could not keep (a blank exercise among
\* them) were dropped, not sent.
PersistedRowsComplete ==
    /\ \A n \in 1..Len(workouts) :
          /\ workouts[n].workout_date # None
          /\ workouts[n].exercise # NoName
          /\ workouts[n].sets = 1
    /\ \A p \in Procs :
          (pc[p] = "done" /\ MissingColumns(upload[p]) = {} /\ ~Unavailable(p))
          => Success(p)

\* C10: two ui imports running at once are not kept apart, so both can report
\* success over a store neither would have left (RaceMixedStore).  All that holds
\* once both have reported success: every stored workout is a record of one of
\* the two sheets, and one of the two sheets has all its records stored.
RaceOutcome ==
    (\A p \in Procs : pc[p] = "done" /\ Success(p))
    => /\ Range(Records(workouts)) \subseteq Range(df[1]) \cup Range(df[2])
       /\ \E p \in Procs : Range(df[p]) \subseteq Range(Records(workouts))
       /\ Range(Column(exercises, "name")) \subseteq
             Range(unique_exercises[1]) \cup Range(unique_exercises[2])

\* both imports reported success; the store holds the rows of both sheets, which
\* is what neither import alone leaves
RaceMixedStore ==
    /\ \A p \in Procs : pc[p] = "done" /\ Success(p)
    /\ df[1] # <<>> /\ df[2] # <<>> /\ df[1] # df[2]
    /\ Records(workouts) \notin {df[1], df[2]}
    /\ Len(workouts) = Len(df[1]) + Len(df[2])

---------------------------------------------------------------------------
(* Editing a workout from the log form *)

\* the table without the row of an identifier
Without(table, id) == SelectSeq(table, LAMBDA r : r.id # id)

\* the values the form submitted
Submitted ==
    [workout_date |-> request.date, exercise |-> request.exercise, sets |-> 1,
     reps |-> request.reps, weight |-> request.weight]

DeleteWentThrough(p) ==
    \E n \in 1..Len(log[p]) : log[p][n] = [op |-> "delete_workout", outcome |-> "ok"]

\* an edit-save that ran to its end: the old identifier is gone, the rows besides
\* it are as they were, one row with the submitted values was added after them,
\* and the delete request came before the insert request
EditSaveReplacesRecord ==
    (pc[1] = "done" /\ request.kind = "edit" /\ Success(1)) =>
        /\ \A n \in 1..Len(workouts) : workouts[n].id # request.id
        /\ Len(workouts) = Len(Without(request.before, request.id)) + 1
        /\ SubSeq(workouts, 1, Len(workouts) - 1) = Without(request.before, request.id)
        /\ Records(<<workouts[Len(workouts)]>>) = <<Submitted>>
        /\ Len(log[1]) >= 2
        /\ log[1][1].op = "delete_workout"
        /\ log[1][2].op = "save_workout"

\* save_workout raised after the delete went through: neither the old row nor a
\* new one is in the store
FailedSaveLeavesNeither ==
    (pc[1] = "done" /\ request.kind = "edit" /\ result[1] = Raised /\ DeleteWentThrough(1)) =>
        workouts = Without(request.before, request.id)

\* C11: an edit from the log form is a delete followed by a recreate: after a
\* successful edit-save the old identifier is gone, exactly one new record with
\* the submitted values exists and the other records are unchanged; and a save
\* failure after the delete leaves the store without the old and the new record.
EditIsDeleteThenRecreate == EditSaveReplacesRecord /\ FailedSaveLeavesNeither

\* an edit-save ended in success on a store that held the edited row
EditSaved ==
    /\ pc[1] = "done" /\ request.kind = "edit" /\ Success(1)
    /\ \E n \in 1..Len(request.before) : request.before[n].id = request.id

---------------------------------------------------------------------------
(* The two importers side by side *)

Other(imp) == IF imp = "ui" THEN "script" ELSE "ui"

\* C12: the two importers agree: whatever the sheet (its first row naming an
\* exercise) and the prior store, the store an import leaves (records, dates,
\* order, catalog) is the store the other importer leaves for the same sheet.
ImportersAgree ==
    \A p \in Procs :
        (pc[p] = "done" /\ Success(p) /\ NamedFromTop(upload[p].rows))
        => /\ Records(workouts) = Clean(Other(importer[p]), upload[p].rows)
           /\ Column(exercises, "name") = UniqueExercises(Clean(Other(importer[p]), upload[p].rows))

---------------------------------------------------------------------------
(* The catalog and the stored workouts *)

\* the session is between two operations, or at the end of one that completed
BetweenOperations ==
    pc[1] = "idle" \/ (pc[1] = "done" /\ Completed(result[1]))

\* C13: after any sequence of operations that each completed successfully
\* (import, save, delete, replicate, edit), the exercise name of every stored
\* workout is in the exercises table, although save_workout decides from the
\* cached exercise list whether to insert the name.
CatalogCoversWorkouts ==
    (all_ok /\ BetweenOperations) =>
        \A n \in 1..Len(workouts) :
            workouts[n].exercise \in Range(Column(exercises, "name"))

\* a third operation, a save, completed on the cached exercise list alone (no
\* request to the exercises table), after an import had replaced the catalog
SavedOnCachedList ==
    /\ all_ok /\ started = 3
    /\ pc[1] = "done" /\ request.kind = "save" /\ result[1] = ReturnedNone
    /\ log[1] = <<[op |-> "save_workout", outcome |-> "ok"]>>
    /\ Column(exercises, "name") = <<"Bench Press">>
    /\ Len(workouts) = 2

---------------------------------------------------------------------------
(* Replicating a day *)

\* the copies replicate_day_workouts is to make of the rows of a date
CopiesOf(rows) ==
    [n \in 1..Len(rows) |->
        [workout_date |-> Today, exercise |-> rows[n].exercise, sets |-> rows[n].sets,
         reps |-> rows[n].reps, weight |-> rows[n].weight]]

\* the stored workouts dated source_date when the button was clicked
PersistedOnDate == OnDate(request.before, request.date)

\* what the claim says a call does
CopiedOrNoneStored ==
    /\ PersistedOnDate # <<>> =>
          /\ result[1] = Replicated(Len(PersistedOnDate))
          /\ SubSeq(workouts, 1, Len(request.before)) = request.before
          /\ Records(SubSeq(workouts, Len(request.before) + 1, Len(workouts)))
                = CopiesOf(PersistedOnDate)
    /\ result[1] = NoWorkoutsFound =>
          /\ PersistedOnDate = <<>>
          /\ workouts = request.before

\* a call that ended, the store having answered every request of the session
ReplicateEnded ==
    pc[1] = "done" /\ request.kind = "replicate" /\ all_ok /\ ~Unavailable(1)

\* C14: replicate_day_workouts(d) for a date d of the history view: if workouts
\* dated d are stored it adds one copy of each, dated today, after the existing
\* rows, which stay as they are, and returns success with their number; it
\* returns "No workouts found for the selected date" only when no stored
\* workout is dated d, the store unchanged.
ReplicateCopiesDay == ReplicateEnded => CopiedOrNoneStored

\* the same for the dates inside the 45 days that load_data() asks the store for
ReplicateCopiesRecentDay ==
    (ReplicateEnded /\ toordinal(request.date) >= toordinal(Today) - days)
        => CopiedOrNoneStored

\* a day inside the 45 days was replicated
RecentDayReplicated ==
    ReplicateEnded /\ result[1].success /\ request.date # Today

====
